---- MODULE Spec2Model ----
(***************************************************************************)
(* TimeTracker (timetracker.py): one invocation of the command line tool   *)
(* is load -> resolve name -> adjust now -> stop/start/report/status ->    *)
(* optional save.  Times are seconds since 00:00:00 of day 0; text is a    *)
(* sequence of one-character strings.                                      *)
(***************************************************************************)
EXTENDS Integers, Sequences, FiniteSets, TLC

VARIABLES
    file,          \* the store ~/.timetracker: [exists, lines]
    bak,           \* the back up ~/.timetracker.bak: [exists, size]
    clock,         \* the wall clock, datetime.datetime.now()
    timers,        \* global timers at the end of the last invocation
    save_changes,  \* global save_changes at the end of the last invocation
    now,           \* global now of the last invocation, after leap/at
    now0,          \* global now of the last invocation as read from the clock
    loaded,        \* timers right after load() in the last invocation
    load_flag,     \* save_changes right after load() in the last invocation
    opts,          \* the parsed options and arguments of the last invocation
    name,          \* main's local name after resolve_name (NoName: none)
    err,           \* "none", or the exception that ended the last invocation
    out,           \* what the last invocation printed (<<>>: nothing modelled)
    branch,        \* the branch of main's if/elif chain the last invocation took
    saved,         \* whether the last invocation wrote the store
    name_map       \* the alias map NameMap (empty: this revision keeps none)

vars == <<file, bak, clock, timers, save_changes, now, now0, loaded, load_flag,
          opts, name, err, out, branch, saved, name_map>>

-----------------------------------------------------------------------------
(* Bounds of the model. *)

MaxTimers == 3      \* start is not invoked on a store of MaxTimers timers
MaxTicks  == 1      \* the wall clock advances at most MaxTicks times

-----------------------------------------------------------------------------
(* Time: datetime values with microsecond = 0. *)

None == -1                       \* Python's None in a date position

SecPerMin  == 60
SecPerHour == 60 * SecPerMin
SecPerDay  == 24 * SecPerHour

TickStep == SecPerMin \div 2     \* seconds between two samples of the clock
Clock0   == 2 * SecPerDay - TickStep   \* day 1, 23:59:30

\* datetime.replace(hour, minute, second = 0): the date is kept
ReplaceHM(t, hm) == (t \div SecPerDay) * SecPerDay + hm[1] * SecPerHour + hm[2] * SecPerMin

\* main: the adjustment of now by --leap and --at
AdjustNow(t, leap, at) ==
    LET t1 == IF leap # 0 THEN t - leap * SecPerMin ELSE t
    IN  IF at # <<>> THEN ReplaceHM(t1, at) ELSE t1

-----------------------------------------------------------------------------
(* Dates: the proleptic Gregorian calendar of datetime.date.  A day is     *)
(* numbered by its distance from the day before January 1 of Year1, which  *)
(* differs from date.toordinal() by a constant.                            *)

Year1 == 2024                    \* the year whose January 1 is day 1

toordinal(t) == t \div SecPerDay

IsLeap(y) == y % 4 = 0 /\ (y % 100 # 0 \/ y % 400 = 0)

DaysInYear(y) == IF IsLeap(y) THEN 366 ELSE 365

DaysInMonth(y, m) ==
    IF m = 2 THEN (IF IsLeap(y) THEN 29 ELSE 28)
    ELSE IF m \in {4, 6, 9, 11} THEN 30 ELSE 31

\* the day number of January 1 of year y
RECURSIVE year_start(_)
year_start(y) ==
    IF y = Year1 THEN 1
    ELSE IF y > Year1 THEN year_start(y - 1) + DaysInYear(y - 1)
    ELSE year_start(y + 1) - DaysInYear(y)

RECURSIVE year_of(_, _)
year_of(n, y) ==
    IF n < year_start(y) THEN year_of(n, y - 1)
    ELSE IF n >= year_start(y + 1) THEN year_of(n, y + 1)
    ELSE y

\* the date of the k-th day counted from the first day of month m of year y
RECURSIVE month_of(_, _, _)
month_of(y, m, k) ==
    IF k > DaysInMonth(y, m) THEN month_of(y, m + 1, k - DaysInMonth(y, m))
    ELSE [year |-> y, month |-> m, day |-> k]

\* datetime.date.fromordinal
fromordinal(n) ==
    CHOOSE d \in { month_of(y, 1, n - year_start(y) + 1) : y \in {year_of(n, Year1)} } : TRUE

\* date.weekday(): Monday is 0 (January 1 of Year1 is a Monday)
weekday(n) == (n - 1) % 7

\* the Monday of the week that holds the first Thursday of year y
iso_week1_monday(y) ==
    LET first_day     == year_start(y)
        first_weekday == weekday(first_day)
        week1_monday  == first_day - first_weekday
    IN  IF first_weekday > 3 THEN week1_monday + 7 ELSE week1_monday

\* the ISO week of day n of year y
isoweek_of(n, y) ==
    IF n < iso_week1_monday(y) THEN (n - iso_week1_monday(y - 1)) \div 7 + 1
    ELSE IF (n - iso_week1_monday(y)) \div 7 >= 52 /\ n >= iso_week1_monday(y + 1) THEN 1
    ELSE (n - iso_week1_monday(y)) \div 7 + 1

\* date.isocalendar()[1]
isoweek(n) == isoweek_of(n, fromordinal(n).year)

-----------------------------------------------------------------------------
(* Text. *)

\* the white space str.strip removes
IsSpace(c) == c \in {" ", "\t", "\n"}

RECURSIVE lstrip(_)
lstrip(s) == IF s # <<>> /\ IsSpace(Head(s)) THEN lstrip(Tail(s)) ELSE s

RECURSIVE rstrip(_)
rstrip(s) == IF s # <<>> /\ IsSpace(s[Len(s)]) THEN rstrip(SubSeq(s, 1, Len(s) - 1)) ELSE s

strip(s) == rstrip(lstrip(s))

\* str.partition(":"): <<head, sep, tail>> around the first ":"
partition(s) ==
    IF \E i \in 1..Len(s) : s[i] = ":"
    THEN LET i == CHOOSE k \in 1..Len(s) : s[k] = ":" /\ \A j \in 1..(k-1) : s[j] # ":"
         IN  <<SubSeq(s, 1, i - 1), <<":">>, SubSeq(s, i + 1, Len(s))>>
    ELSE <<s, <<>>, <<>>>>

-----------------------------------------------------------------------------
(* Regular expressions over the characters "a", "b", " ", tab, "." and     *)
(* "(": a letter, a space or a tab matches itself, "." matches any of      *)
(* these characters, and a lone "(" does not compile (sre_constants.error).*)

re_compiles(pat) == \A i \in 1..Len(pat) : pat[i] # "("

re_match_at(pat, s, k) ==
    /\ k + Len(pat) - 1 <= Len(s)
    /\ \A i \in 1..Len(pat) : pat[i] = "." \/ pat[i] = s[k + i - 1]

re_search(pat, s) == \E k \in 1..(Len(s) + 1) : re_match_at(pat, s, k)

-----------------------------------------------------------------------------
(* class Timer *)

Timer(n, c, start, end) ==
    [name |-> strip(n), comment |-> strip(c), start |-> start, end |-> end]

active(t) == t.end = None

\* Timer.duration at wall clock time wall
duration(t, wall) == IF active(t) THEN wall - t.start ELSE t.end - t.start

\* \w over the characters of the model: every character but the blanks and
\* the punctuation
IsWord(c) == c \notin {" ", "\t", "\n", ".", "(", ":", "@"}

\* the index after the run of \w characters of s that begins at k
RECURSIVE word_end(_, _)
word_end(s, k) == IF k <= Len(s) /\ IsWord(s[k]) THEN word_end(s, k + 1) ELSE k

\* re.findall("(@\w+)", s) from index k on, as a set
RECURSIVE findall_tags(_, _)
findall_tags(s, k) ==
    IF k > Len(s) THEN {}
    ELSE UNION { IF s[k] = "@" /\ e > k + 1
                 THEN {SubSeq(s, k, e - 1)} \cup findall_tags(s, e)
                 ELSE findall_tags(s, k + 1) : e \in {word_end(s, k + 1)} }

\* Timer.tags, which __init__ computes from the name and the comment
tags(t) ==
    LET found == findall_tags(t.name \o <<" ">> \o t.comment, 1)
    IN  IF found # {} THEN found ELSE {<<"No tags">>}

-----------------------------------------------------------------------------
(* The store: a file is [exists, lines]; a line is the tuple of its        *)
(* tab-separated fields; a date field is <<"None">> or                     *)
(* <<day, hour, minute, second>> (the text of %Y-%m-%d %H:%M:%S).          *)

version == 2

NoFile == [exists |-> FALSE, lines |-> <<>>]

date_to_str(d) ==
    IF d = None THEN <<"None">>
    ELSE <<d \div SecPerDay, (d % SecPerDay) \div SecPerHour,
           (d % SecPerHour) \div SecPerMin, d % SecPerMin>>

date_from_str(str) ==
    IF str = <<"None">> THEN None
    ELSE str[1] * SecPerDay + str[2] * SecPerHour + str[3] * SecPerMin + str[4]

\* the loop of load over the lines from line i on
RECURSIVE load_lines(_, _, _, _)
load_lines(lines, i, ts, load_version) ==
    IF i > Len(lines) THEN [timers |-> ts, load_version |-> load_version]
    ELSE LET field == lines[i] IN
         IF field[1] = "TIMER"
         THEN IF load_version > 1
              THEN load_lines(lines, i + 1,
                     Append(ts, Timer(field[4], field[5], date_from_str(field[2]), date_from_str(field[3]))),
                     load_version)
              ELSE IF load_version = 1
              THEN load_lines(lines, i + 1,
                     Append(ts, Timer(field[4], <<>>, date_from_str(field[2]), date_from_str(field[3]))),
                     load_version)
              ELSE load_lines(lines, i + 1,
                     Append(ts, Timer(field[2], <<>>, date_from_str(field[3]), date_from_str(field[4]))),
                     load_version)
         ELSE IF field[1] = "VERSION"
         THEN load_lines(lines, i + 1, ts, field[2])
         ELSE load_lines(lines, i + 1, ts, load_version)

\* load(fname): the timers and the value load leaves in save_changes
load(f, flag) ==
    LET r == load_lines(f.lines, 1, <<>>, 0)
    IN  [timers |-> r.timers,
         save_changes |-> IF r.load_version # version THEN TRUE ELSE flag]

\* str.split('\t'): the fields of a text between its tabs
RECURSIVE split_tab(_)
split_tab(s) ==
    IF \E i \in 1..Len(s) : s[i] = "\t"
    THEN LET i == CHOOSE k \in 1..Len(s) : s[k] = "\t" /\ \A j \in 1..(k-1) : s[j] # "\t"
         IN  <<SubSeq(s, 1, i - 1)>> \o split_tab(SubSeq(s, i + 1, Len(s)))
    ELSE <<s>>

\* the lines save writes, as load will split them: the name and the comment
\* are written as they are, tabs included
save_lines(ts) ==
    << <<"VERSION", version>> >> \o
    [i \in 1..Len(ts) |->
        <<"TIMER", date_to_str(ts[i].start), date_to_str(ts[i].end)>>
        \o split_tab(ts[i].name) \o split_tab(ts[i].comment)]

\* st_size: the bytes of a line as save writes it (tabs and newline
\* included) and of a file
date_size(str) == IF str = <<"None">> THEN 4 ELSE 19

\* the bytes of the text fields of a line from field k on, a tab before each
RECURSIVE text_size(_, _)
text_size(l, k) == IF k > Len(l) THEN 0 ELSE 1 + Len(l[k]) + text_size(l, k + 1)

line_size(l) ==
    IF l[1] = "VERSION" THEN 7 + 1 + 1 + 1
    ELSE 5 + 1 + date_size(l[2]) + 1 + date_size(l[3]) + text_size(l, 4) + 1

RECURSIVE st_size(_)
st_size(lines) == IF lines = <<>> THEN 0 ELSE line_size(Head(lines)) + st_size(Tail(lines))

\* backup(fname): the back up file afterwards, or the exception.  The
\* program reads only the existence and the size of the back up, so that is
\* what is kept of it.
NoBackup == [exists |-> FALSE, size |-> 0]

backup(f, b) ==
    IF b.exists /\ ~f.exists THEN [bak |-> b, err |-> "OSError"]
    ELSE IF b.exists /\ b.size > st_size(f.lines) THEN [bak |-> b, err |-> "none"]
    ELSE IF ~f.exists THEN [bak |-> b, err |-> "IOError"]
    ELSE [bak |-> [exists |-> TRUE, size |-> st_size(f.lines)], err |-> "none"]

\* save(fname): the store and the back up afterwards, or the exception
save(f, b, ts) ==
    LET r == backup(f, b)
    IN  IF r.err # "none" THEN [file |-> f, bak |-> r.bak, err |-> r.err]
        ELSE [file |-> [exists |-> TRUE, lines |-> save_lines(ts)], bak |-> r.bak, err |-> "none"]

-----------------------------------------------------------------------------
(* Name resolution and the timer lifecycle. *)

\* the reversed(timers) loop of resolve_name from index i down
RECURSIVE resolve_scan(_, _, _)
resolve_scan(n, ts, i) ==
    IF i = 0 THEN n
    ELSE IF re_search(n, ts[i].name) THEN ts[i].name
    ELSE resolve_scan(n, ts, i - 1)

\* resolve_name(name): the name returned, or the exception of re.search
resolve_name(n, explicit, ts) ==
    IF ~explicit
    THEN IF Len(ts) > 0 /\ ~re_compiles(n)
         THEN [name |-> n, err |-> "re.error"]
         ELSE [name |-> resolve_scan(n, ts, Len(ts)), err |-> "none"]
    ELSE [name |-> n, err |-> "none"]

\* stop_step with the collapse moving the start and leaving the end
stop_step_keeps_end(t, nw) ==
    IF nw < t.start
    THEN [timer |-> [t EXCEPT !.start = nw], changed |-> TRUE, brk |-> FALSE]
    ELSE IF active(t)
    THEN [timer |-> [t EXCEPT !.end = nw], changed |-> TRUE, brk |-> FALSE]
    ELSE IF nw < t.end
    THEN [timer |-> [t EXCEPT !.end = nw], changed |-> TRUE, brk |-> FALSE]
    ELSE [timer |-> t, changed |-> FALSE, brk |-> TRUE]

\* stop_step with the active branch leaving the timer open
stop_step_leaves_open(t, nw) ==
    IF nw < t.start
    THEN [timer |-> [t EXCEPT !.start = nw, !.end = nw], changed |-> TRUE, brk |-> FALSE]
    ELSE IF active(t)
    THEN [timer |-> t, changed |-> TRUE, brk |-> FALSE]
    ELSE IF nw < t.end
    THEN [timer |-> [t EXCEPT !.end = nw], changed |-> TRUE, brk |-> FALSE]
    ELSE [timer |-> t, changed |-> FALSE, brk |-> TRUE]

\* stop_step with the first branch setting the end only
stop_step_keeps_start(t, nw) ==
    IF nw < t.start
    THEN [timer |-> [t EXCEPT !.end = nw], changed |-> TRUE, brk |-> FALSE]
    ELSE IF active(t)
    THEN [timer |-> [t EXCEPT !.end = nw], changed |-> TRUE, brk |-> FALSE]
    ELSE IF nw < t.end
    THEN [timer |-> [t EXCEPT !.end = nw], changed |-> TRUE, brk |-> FALSE]
    ELSE [timer |-> t, changed |-> FALSE, brk |-> TRUE]

\* stop_step without the third branch: a closed timer that ends after now
\* breaks the loop
stop_step_no_clamp(t, nw) ==
    IF nw < t.start
    THEN [timer |-> [t EXCEPT !.start = nw, !.end = nw], changed |-> TRUE, brk |-> FALSE]
    ELSE IF active(t)
    THEN [timer |-> [t EXCEPT !.end = nw], changed |-> TRUE, brk |-> FALSE]
    ELSE [timer |-> t, changed |-> FALSE, brk |-> TRUE]

\* stop_step with the first branch breaking the loop
stop_step_no_collapse(t, nw) ==
    IF nw < t.start
    THEN [timer |-> t, changed |-> FALSE, brk |-> TRUE]
    ELSE IF active(t)
    THEN [timer |-> [t EXCEPT !.end = nw], changed |-> TRUE, brk |-> FALSE]
    ELSE IF nw < t.end
    THEN [timer |-> [t EXCEPT !.end = nw], changed |-> TRUE, brk |-> FALSE]
    ELSE [timer |-> t, changed |-> FALSE, brk |-> TRUE]

\* the body of the loop of stop_timer for one timer: the timer afterwards,
\* whether save_changes is set, and whether the loop breaks
stop_step(t, nw) ==
    IF nw < t.start
    THEN [timer |-> [t EXCEPT !.start = nw, !.end = nw], changed |-> TRUE, brk |-> FALSE]
    ELSE IF active(t)
    THEN [timer |-> [t EXCEPT !.end = nw], changed |-> TRUE, brk |-> FALSE]
    ELSE IF nw < t.end
    THEN [timer |-> [t EXCEPT !.end = nw], changed |-> TRUE, brk |-> FALSE]
    ELSE [timer |-> t, changed |-> FALSE, brk |-> TRUE]

RECURSIVE stop_scan(_, _, _, _)

\* the loop of stop_timer breaking at the first closed timer that starts no
\* later than now, whatever its end
stop_scan_halts_on_start(ts, i, nw, flag) ==
    IF i = 0 THEN [timers |-> ts, save_changes |-> flag]
    ELSE LET r == stop_step(ts[i], nw) IN
         IF r.brk \/ (~active(ts[i]) /\ ts[i].start <= nw)
         THEN [timers |-> ts, save_changes |-> flag]
         ELSE stop_scan([ts EXCEPT ![i] = r.timer], i - 1, nw, flag \/ r.changed)

\* the loop of stop_timer moving the end of the timer at which it breaks
stop_scan_moves_last(ts, i, nw, flag) ==
    IF i = 0 THEN [timers |-> ts, save_changes |-> flag]
    ELSE LET r == stop_step(ts[i], nw) IN
         IF r.brk THEN [timers |-> [ts EXCEPT ![i].end = nw], save_changes |-> TRUE]
         ELSE stop_scan([ts EXCEPT ![i] = r.timer], i - 1, nw, flag \/ r.changed)

\* the loop of stop_timer from index i down to 1
stop_scan(ts, i, nw, flag) ==
    IF i = 0 THEN [timers |-> ts, save_changes |-> flag]
    ELSE LET r == stop_step(ts[i], nw) IN
         IF r.brk THEN [timers |-> ts, save_changes |-> flag]
         ELSE stop_scan([ts EXCEPT ![i] = r.timer], i - 1, nw, flag \/ r.changed)

\* stop_timer setting save_changes before it looks at the timers
stop_timer_flags_first(ts, nw, flag) ==
    IF Len(ts) = 0 THEN [timers |-> ts, save_changes |-> TRUE]
    ELSE stop_scan(ts, Len(ts), nw, TRUE)

\* stop_timer setting save_changes after the loop
stop_timer_flags_last(ts, nw, flag) ==
    IF Len(ts) = 0 THEN [timers |-> ts, save_changes |-> flag]
    ELSE [stop_scan(ts, Len(ts), nw, flag) EXCEPT !.save_changes = TRUE]

stop_timer(ts, nw, flag) ==
    IF Len(ts) = 0 THEN [timers |-> ts, save_changes |-> flag]
    ELSE stop_scan(ts, Len(ts), nw, flag)

\* start_timer overwriting the last timer instead of appending
start_timer_overwrites(ts, n, c, nw, flag) ==
    [timers |-> IF ts = <<>> THEN <<Timer(n, c, nw, None)>>
                ELSE [ts EXCEPT ![Len(ts)] = Timer(n, c, nw, None)],
     save_changes |-> TRUE]

\* flag is save_changes at the call
start_timer(ts, n, c, nw, flag) ==
    [timers |-> Append(ts, Timer(n, c, nw, None)), save_changes |-> TRUE]

-----------------------------------------------------------------------------
(* main *)

NoName == <<"None">>             \* main's name = None

\* " ".join(optargs)
RECURSIVE join(_)
join(words) ==
    IF words = <<>> THEN <<>>
    ELSE IF Len(words) = 1 THEN Head(words)
    ELSE Head(words) \o <<" ">> \o join(Tail(words))

\* int(x / 60.0): truncation toward zero
int_div(x, y) == IF x >= 0 THEN x \div y ELSE -((-x) \div y)

\* the branch of main that prints the active timer; wall is the clock
\* sampled by Timer.duration
status(ts, wall) ==
    IF Len(ts) > 0 /\ active(ts[Len(ts)])
    THEN LET d == int_div(duration(ts[Len(ts)], wall), 60)
         IN  <<ts[Len(ts)].name, d \div 60, d % 60>>
    ELSE <<"No active timer">>

\* an empty tally dict
NoTally == [k \in {} |-> 0]

\* the pair ({}, {}) of a tally by name and a tally by tag
NoTotal == [names |-> NoTally, tags |-> NoTally]

same_day(prev_date, date) == toordinal(prev_date) = toordinal(date)

same_month(prev_date, date) ==
    \E d \in { [x \in {prev_date, date} |-> fromordinal(toordinal(x))] } :
        d[prev_date].year = d[date].year /\ d[prev_date].month = d[date].month

same_week(prev_date, date) ==
    \E d \in { [x \in {prev_date, date} |-> fromordinal(toordinal(x))] } :
        /\ d[prev_date].year = d[date].year
        /\ d[prev_date].month = d[date].month
        /\ isoweek_of(toordinal(prev_date), d[prev_date].year)
              = isoweek_of(toordinal(date), d[date].year)

add_duration_skips_tags(t, total, wall) ==
    CHOOSE added \in
        { [names |-> IF t.name \in DOMAIN total.names
                     THEN [total.names EXCEPT ![t.name] = @ + d]
                     ELSE total.names @@ (t.name :> d),
           tags  |-> total.tags]
          : d \in {duration(t, wall)} } : TRUE

\* add_duration: the duration goes to the timer's name and to each of its tags
add_duration(t, total, wall) ==
    CHOOSE added \in
        { [names |-> IF t.name \in DOMAIN total.names
                     THEN [total.names EXCEPT ![t.name] = @ + d]
                     ELSE total.names @@ (t.name :> d),
           tags  |-> [k \in DOMAIN total.tags \cup found |->
                         (IF k \in DOMAIN total.tags THEN total.tags[k] ELSE 0)
                         + (IF k \in found THEN d ELSE 0)]]
          : d \in {duration(t, wall)}, found \in {tags(t)} } : TRUE

\* print_daily, print_weekly, print_monthly: the section printed, kept as the
\* arguments of the call
print_section(kind, date, total) == [kind |-> kind, date |-> date, total |-> total]

\* the body of the loop of report for timer t; st holds prev_date, the three
\* totals and what is printed so far.  The three tests of the body are bound
\* once, as the element of a singleton set.
report_step(t, st, wall) ==
    CHOOSE next \in
        { [prev_date |-> t.start,
           daily     |-> add_duration(t, IF new.day THEN NoTotal ELSE st.daily, wall),
           weekly    |-> add_duration(t, IF new.week THEN NoTotal ELSE st.weekly, wall),
           monthly   |-> add_duration(t, IF new.month THEN NoTotal ELSE st.monthly, wall),
           printed   |-> st.printed
                \o (IF new.day THEN <<print_section("day", st.prev_date, st.daily)>>
                    ELSE <<>>)
                \o (IF new.week THEN <<print_section("week", st.prev_date, st.weekly)>>
                    ELSE <<>>)
                \o (IF new.month THEN <<print_section("month", st.prev_date, st.monthly)>>
                    ELSE <<>>)]
          : new \in { [day   |-> ~same_day(st.prev_date, t.start),
                       week  |-> ~same_week(st.prev_date, t.start),
                       month |-> ~same_month(st.prev_date, t.start)] } } : TRUE

\* the loop of report from timer i on, and the three sections after it
RECURSIVE report_loop(_, _, _, _)
report_loop(ts, i, st, wall) ==
    IF i > Len(ts)
    THEN st.printed \o << print_section("day", st.prev_date, st.daily),
                          print_section("week", st.prev_date, st.weekly),
                          print_section("month", st.prev_date, st.monthly) >>
    ELSE CHOOSE printed \in
             { report_loop(ts, i + 1, next, wall) :
                 next \in {report_step(ts[i], st, wall)} } : TRUE

report(ts, wall) ==
    IF Len(ts) = 0 THEN <<"No timers to report">>
    ELSE CHOOSE printed \in
             { report_loop(ts, 1, st, wall) :
                 st \in { [prev_date |-> ts[1].start, daily |-> NoTotal,
                           weekly |-> NoTotal, monthly |-> NoTotal,
                           printed |-> <<>>] } } : TRUE

\* [ datetime.timedelta(0) ] * 8: a weekday each and their total
NoWeek == [day \in 1..8 |-> 0]

\* total[day] += d and total[7] += d of add_duration_week, for one key
add_week(total, key, day, d) ==
    LET row == IF key \in DOMAIN total THEN total[key] ELSE NoWeek
    IN  [k \in DOMAIN total \cup {key} |->
            IF k = key THEN [row EXCEPT ![day + 1] = @ + d, ![8] = @ + d] ELSE total[k]]

RECURSIVE add_week_tags(_, _, _, _)
add_week_tags(total, keys, day, d) ==
    IF keys = {} THEN total
    ELSE LET k == CHOOSE x \in keys : TRUE
         IN  add_week_tags(add_week(total, k, day, d), keys \ {k}, day, d)

add_duration_week(t, total, wall) ==
    CHOOSE added \in
        { [names |-> add_week(total.names, t.name, day, d),
           tags  |-> add_week_tags(total.tags, tags(t), day, d)]
          : day \in {weekday(toordinal(t.start))}, d \in {duration(t, wall)} } : TRUE

report_cal_step_resets_month(t, st, wall) ==
    CHOOSE next \in
        { [prev_date |-> t.start,
           weekly    |-> add_duration_week(t, IF new.month \/ new.week THEN NoTotal
                                              ELSE st.weekly, wall),
           monthly   |-> add_duration(t, IF new.month \/ new.week THEN NoTotal
                                         ELSE st.monthly, wall),
           printed   |-> st.printed
                \o (IF new.month
                    THEN << print_section("week_cal", st.prev_date, st.weekly),
                            print_section("month", st.prev_date, st.monthly) >>
                    ELSE IF new.week
                    THEN << print_section("week_cal", st.prev_date, st.weekly) >>
                    ELSE <<>>)]
          : new \in { [month |-> ~same_month(st.prev_date, t.start),
                       week  |-> ~same_week(st.prev_date, t.start)] } } : TRUE

\* the body of the loop of report_cal for timer t; st holds prev_date, the
\* two totals and what is printed so far; the elif is taken when new.month
\* is false and new.week is true
report_cal_step(t, st, wall) ==
    CHOOSE next \in
        { [prev_date |-> t.start,
           weekly    |-> add_duration_week(t, IF new.month \/ new.week THEN NoTotal
                                              ELSE st.weekly, wall),
           monthly   |-> add_duration(t, IF new.month THEN NoTotal ELSE st.monthly, wall),
           printed   |-> st.printed
                \o (IF new.month
                    THEN << print_section("week_cal", st.prev_date, st.weekly),
                            print_section("month", st.prev_date, st.monthly) >>
                    ELSE IF new.week
                    THEN << print_section("week_cal", st.prev_date, st.weekly) >>
                    ELSE <<>>)]
          : new \in { [month |-> ~same_month(st.prev_date, t.start),
                       week  |-> ~same_week(st.prev_date, t.start)] } } : TRUE

\* the loop of report_cal from timer i on, and the two sections after it
RECURSIVE report_cal_loop(_, _, _, _)
report_cal_loop(ts, i, st, wall) ==
    IF i > Len(ts)
    THEN st.printed \o << print_section("week_cal", st.prev_date, st.weekly),
                          print_section("month", st.prev_date, st.monthly) >>
    ELSE CHOOSE printed \in
             { report_cal_loop(ts, i + 1, next, wall) :
                 next \in {report_cal_step(ts[i], st, wall)} } : TRUE

report_cal(ts, wall) ==
    IF Len(ts) = 0 THEN <<"No timers to report">>
    ELSE CHOOSE printed \in
             { report_cal_loop(ts, 1, st, wall) :
                 st \in { [prev_date |-> ts[1].start, weekly |-> NoTotal,
                           monthly |-> NoTotal, printed |-> <<>>] } } : TRUE

\* '{:%b %d}'.format(datetime.date.fromordinal(n)): the month and the day
month_day(n) == CHOOSE md \in { [month |-> d.month, day |-> d.day] : d \in {fromordinal(n)} } : TRUE

report_break_step_counts_ends(prev_date, date) ==
    LET start_break == toordinal(prev_date) + 1
        end_break   == toordinal(date) - 1
    IN  IF end_break - start_break + 1 >= 3
        THEN << [from |-> month_day(start_break), to |-> month_day(end_break),
                 days |-> end_break - start_break + 1] >>
        ELSE <<>>

\* the body of the loop of report_break_in_service: the line printed, if any
report_break_step(prev_date, date) ==
    LET start_break == toordinal(prev_date) + 1
        end_break   == toordinal(date) - 1
    IN  IF end_break - start_break + 1 > 3
        THEN << [from |-> month_day(start_break), to |-> month_day(end_break),
                 days |-> end_break - start_break + 1] >>
        ELSE <<>>

\* the loop of report_break_in_service from timer i on
RECURSIVE report_break_loop(_, _, _)
report_break_loop(ts, i, prev_date) ==
    IF i > Len(ts) THEN <<>>
    ELSE report_break_step(prev_date, ts[i].start) \o report_break_loop(ts, i + 1, ts[i].start)

\* report_break_in_service reads timers[0] first
report_break_in_service(ts) ==
    IF Len(ts) = 0 THEN [out |-> <<>>, err |-> "IndexError"]
    ELSE [out |-> report_break_loop(ts, 1, ts[1].start), err |-> "none"]

\* the if/elif chain of main on the options o, the resolved name n, the
\* comment c and the adjusted now nw
dispatch(o, n, c, ts, flag, nw, wall) ==
    IF o.stop
    THEN LET r == stop_timer(ts, nw, flag)
         IN  [timers |-> r.timers, save_changes |-> r.save_changes, err |-> "none",
              out |-> <<>>, branch |-> "stop"]
    ELSE IF n # NoName /\ n # <<>>
    THEN LET r == stop_timer(ts, nw, flag)
             q == start_timer(r.timers, n, c, nw, r.save_changes)
         IN  [timers |-> q.timers, save_changes |-> q.save_changes,
              err |-> "none", out |-> <<>>, branch |-> "start"]
    ELSE IF o.report
    THEN [timers |-> ts, save_changes |-> flag, err |-> "none",
          out |-> report(ts, wall), branch |-> "report"]
    ELSE IF o.report_cal
    THEN [timers |-> ts, save_changes |-> flag, err |-> "none",
          out |-> report_cal(ts, wall), branch |-> "report_cal"]
    ELSE IF o.report_break_in_service
    THEN LET r == report_break_in_service(ts)
         IN  [timers |-> ts, save_changes |-> flag, err |-> r.err,
              out |-> r.out, branch |-> "report_break_in_service"]
    ELSE [timers |-> ts, save_changes |-> flag, err |-> "none",
          out |-> status(ts, wall), branch |-> "status"]

\* main() on the store f, the back up b and the options o; wall0 is the
\* clock when the module is loaded, wall the clock when a duration is taken
main(f, b, wall0, wall, o) ==
    LET ld   == IF f.exists THEN load(f, FALSE)
                ELSE [timers |-> <<>>, save_changes |-> FALSE]
        part == partition(join(o.optargs))
        rn   == IF o.optargs # <<>>
                THEN resolve_name(part[1], o.explicit, ld.timers)
                ELSE [name |-> NoName, err |-> "none"]
        nw   == AdjustNow(wall0, o.leap, o.at_time)
        base == [loaded |-> ld.timers, load_flag |-> ld.save_changes]
    IN  IF rn.err # "none"
        THEN base @@ [timers |-> ld.timers, save_changes |-> ld.save_changes,
                      now |-> wall0, name |-> NoName, err |-> rn.err,
                      out |-> <<>>, file |-> f, bak |-> b,
                      branch |-> "resolve_name", saved |-> FALSE]
        ELSE LET d == dispatch(o, rn.name, part[3], ld.timers, ld.save_changes, nw, wall)
                 sv == IF d.err = "none" /\ d.save_changes
                       THEN save(f, b, d.timers)
                       ELSE [file |-> f, bak |-> b, err |-> d.err]
             IN  base @@ [timers |-> d.timers, save_changes |-> d.save_changes,
                          now |-> nw, name |-> rn.name, err |-> sv.err,
                          out |-> d.out, file |-> sv.file, bak |-> sv.bak,
                          branch |-> d.branch,
                          saved |-> d.err = "none" /\ d.save_changes /\ sv.err = "none"]

-----------------------------------------------------------------------------
(* The inputs of an invocation. *)

Leaps   == {0, 1}                 \* --leap M (0: not given)
AtTimes == {<<>>, <<23, 59>>}     \* --at HH:MM (<<>>: not given)

\* the positional arguments of Spec: tt a :b
NameArgs == { << <<"a">>, <<":", "b">> >> }

\* the positional arguments of SpecNames: tt a, tt b:a, tt a b, tt ., tt "(",
\* tt :b, and tt "a<tab>b"
RichArgs ==
    { << <<"a">> >>,
      << <<"b", ":", "a">> >>,
      << <<"a">>, <<"b">> >>,
      << <<".">> >>,
      << <<"(">> >>,
      << <<":", "b">> >>,
      << <<"a", "\t", "b">> >> }

NoOptions ==
    [explicit |-> FALSE, stop |-> FALSE, report |-> FALSE, report_cal |-> FALSE,
     report_break_in_service |-> FALSE, leap |-> 0, at_time |-> <<>>, optargs |-> <<>>]

-----------------------------------------------------------------------------
(* The state machine: invocations of the tool, and the passing of time. *)

Init ==
    /\ file \in { NoFile,
                  [exists |-> TRUE, lines |-> <<>>],
                  [exists |-> TRUE, lines |-> << <<"VERSION", version>> >>] }
    /\ bak = NoBackup
    /\ clock = Clock0
    /\ timers = <<>>
    /\ save_changes = FALSE
    /\ now = Clock0
    /\ now0 = Clock0
    /\ loaded = <<>>
    /\ load_flag = FALSE
    /\ opts = NoOptions
    /\ name = NoName
    /\ err = "none"
    /\ out = <<>>
    /\ branch = "none"
    /\ saved = FALSE
    /\ name_map = <<>>

\* one run of the program with options o that begins at clock and takes
\* its durations, if any, at wall
Run(o, wall) ==
    /\ \E r \in {main(file, bak, clock, wall, o)} :
        /\ file' = r.file
        /\ bak' = r.bak
        /\ timers' = r.timers
        /\ save_changes' = r.save_changes
        /\ now' = r.now
        /\ loaded' = r.loaded
        /\ load_flag' = r.load_flag
        /\ name' = r.name
        /\ err' = r.err
        /\ out' = r.out
        /\ branch' = r.branch
        /\ saved' = r.saved
    /\ opts' = o
    /\ now0' = clock
    /\ clock' = wall
    /\ UNCHANGED name_map

\* a run that takes no duration of an active timer
Invoke(o) == Run(o, clock)

\* a run that may take the duration of an active timer: the clock may have
\* advanced since the run began
InvokeLate(o) ==
    \E wall \in {clock, clock + TickStep} :
        /\ wall <= Clock0 + MaxTicks * TickStep
        /\ Run(o, wall)

StoredTimers == IF file.exists THEN load(file, FALSE).timers ELSE <<>>

InvokeStop ==
    \E l \in Leaps, a \in AtTimes :
        Invoke([NoOptions EXCEPT !.stop = TRUE, !.leap = l, !.at_time = a])

InvokeStart ==
    /\ Len(StoredTimers) < MaxTimers
    /\ \E l \in Leaps, a \in AtTimes, args \in NameArgs, e \in BOOLEAN :
        Invoke([NoOptions EXCEPT !.optargs = args, !.explicit = e, !.leap = l, !.at_time = a])

InvokeReport == Invoke([NoOptions EXCEPT !.report = TRUE])

InvokeReportCal == Invoke([NoOptions EXCEPT !.report_cal = TRUE])

InvokeReportBreakInService == Invoke([NoOptions EXCEPT !.report_break_in_service = TRUE])

InvokeStatus ==
    \E l \in Leaps, a \in AtTimes :
        InvokeLate([NoOptions EXCEPT !.leap = l, !.at_time = a])

Tick ==
    /\ clock + TickStep <= Clock0 + MaxTicks * TickStep
    /\ clock' = clock + TickStep
    /\ UNCHANGED <<file, bak, timers, save_changes, now, now0, loaded, load_flag, opts, name,
                   err, out, branch, saved, name_map>>

Next ==
    \/ InvokeStop
    \/ InvokeStart
    \/ InvokeReport
    \/ InvokeReportCal
    \/ InvokeReportBreakInService
    \/ InvokeStatus
    \/ Tick

Spec == Init /\ [][Next]_vars

(* The same program driven with the names of RichArgs and no adjustment of *)
(* now.                                                                    *)

InvokeStartNamed ==
    /\ Len(StoredTimers) < MaxTimers
    /\ \E args \in RichArgs, e \in BOOLEAN :
        Invoke([NoOptions EXCEPT !.optargs = args, !.explicit = e])

InvokeStopNamed ==
    \E args \in RichArgs, e \in BOOLEAN :
        Invoke([NoOptions EXCEPT !.stop = TRUE, !.optargs = args, !.explicit = e])

NextNames ==
    \/ InvokeStartNamed
    \/ InvokeStopNamed

SpecNames == Init /\ [][NextNames]_vars

(* The reports, run on stores the lifecycle can leave behind: up to        *)
(* MaxTimers timers in ascending order that do not overlap, the last one   *)
(* possibly active, on days around a week change and a month change.       *)

\* days of January and February of Year1: Mon 1, Tue 2, Sat 6, Wed 10,
\* Wed 31, Thu 1 February
ReportDays == {1, 2, 6, 10, 31, 32}

\* name, comment and seconds from start to end of a stored timer
ReportTimers ==
    { [name |-> <<"a">>, comment |-> <<>>, len |-> SecPerMin \div 2],
      [name |-> <<"b">>, comment |-> <<"@", "x">>, len |-> SecPerHour + SecPerHour \div 2],
      [name |-> <<"a">>, comment |-> <<"@", "x", " ", "@", "y">>, len |-> SecPerHour] }

\* timer i of n starts at 23:00 less two hours for each timer after it
ReportStart(day, i, n) == day * SecPerDay + (23 - 2 * (n - i)) * SecPerHour

\* the timers of a store: timer i of the n is what[i] on day days[i], and
\* the last one is active if open
ReportStore(n, days, what, open) ==
    [i \in 1..n |->
        Timer(what[i].name, what[i].comment, ReportStart(days[i], i, n),
              IF i = n /\ open THEN None ELSE ReportStart(days[i], i, n) + what[i].len)]

\* the clock of the report runs: midnight after the last day of ReportDays
ReportClock == (1 + CHOOSE d \in ReportDays : \A e \in ReportDays : e <= d) * SecPerDay

InitReport ==
    /\ \E n \in 0..MaxTimers :
         \E days \in [1..n -> ReportDays], what \in [1..n -> ReportTimers], open \in BOOLEAN :
            /\ \A a, b \in 1..n : a < b => days[a] <= days[b]
            /\ n = 0 => ~open
            /\ file = [exists |-> TRUE,
                       lines |-> save_lines(ReportStore(n, days, what, open))]
    /\ bak = NoBackup
    /\ clock = ReportClock
    /\ timers = <<>>
    /\ save_changes = FALSE
    /\ now = ReportClock
    /\ now0 = ReportClock
    /\ loaded = <<>>
    /\ load_flag = FALSE
    /\ opts = NoOptions
    /\ name = NoName
    /\ err = "none"
    /\ out = <<>>
    /\ branch = "none"
    /\ saved = FALSE
    /\ name_map = <<>>

NextReport ==
    \/ InvokeReport
    \/ InvokeReportCal
    \/ InvokeReportBreakInService

SpecReport == InitReport /\ [][NextReport]_vars

-----------------------------------------------------------------------------
(* Name resolution of the revisions that keep an alias map (NameResolver): *)
(* explicit, else alias, else the latest timer whose name matches, else    *)
(* the text itself.                                                        *)

\* the branches of resolve in another order: the search before the alias
resolve_search_first(rawText, explicit, nm, ts) ==
    IF explicit THEN strip(rawText)
    ELSE IF \E i \in 1..Len(ts) : re_search(rawText, ts[i].name)
    THEN resolve_scan(rawText, ts, Len(ts))
    ELSE IF rawText \in DOMAIN nm THEN nm[rawText]
    ELSE rawText

resolve(rawText, explicit, nm, ts) ==
    IF explicit THEN strip(rawText)
    ELSE IF rawText \in DOMAIN nm THEN nm[rawText]
    ELSE IF \E i \in 1..Len(ts) : re_search(rawText, ts[i].name)
    THEN resolve_scan(rawText, ts, Len(ts))
    ELSE rawText

\* the inputs of resolve: alias maps, timer names and texts
AliasMaps ==
    { <<>>,
      (<<"a">> :> <<"b">>),
      (<<"a">> :> <<"a", "b">>) @@ (<<"b">> :> <<"a">>) }

AliasNames == { <<"a">>, <<"b">>, <<"a", "b">> }

AliasTexts == { <<"a">>, <<"b">>, <<".">>, <<"b", "b">> }

AliasTimers ==
    { <<>> } \cup { <<Timer(n, <<>>, Clock0, Clock0)>> : n \in AliasNames }
             \cup { <<Timer(n, <<>>, Clock0, Clock0), Timer(m, <<>>, Clock0, None)>> :
                       n \in AliasNames, m \in AliasNames }

InitAlias ==
    /\ file = NoFile
    /\ bak = NoBackup
    /\ clock = Clock0
    /\ timers \in AliasTimers
    /\ loaded = timers
    /\ name_map \in AliasMaps
    /\ save_changes = FALSE
    /\ now = Clock0
    /\ now0 = Clock0
    /\ load_flag = FALSE
    /\ opts = NoOptions
    /\ name = NoName
    /\ err = "none"
    /\ out = <<>>
    /\ branch = "none"
    /\ saved = FALSE

\* resolve applied to a text, with or without the explicit flag
Resolve ==
    \E rawText \in AliasTexts, e \in BOOLEAN :
        /\ name' = resolve(rawText, e, name_map, timers)
        /\ opts' = [NoOptions EXCEPT !.optargs = <<rawText>>, !.explicit = e]
        /\ branch' = "resolve"
        /\ UNCHANGED <<file, bak, clock, timers, save_changes, now, now0, loaded, load_flag,
                       err, out, saved, name_map>>

SpecAlias == InitAlias /\ [][Resolve]_vars

-----------------------------------------------------------------------------
(* Properties. *)

\* stop_timer ran in the last invocation (alone, or before start_timer)
Stopped == branch \in {"stop", "start"}

OnlyLastActive(ts) == \A i \in 1..Len(ts) : active(ts[i]) => i = Len(ts)

\* C1: at most one timer is active and it is the last one, in memory after
\* every invocation, after every load and in the store; so start_timer
\* appends to a sequence without an active timer.
C1_OneActiveLast ==
    /\ OnlyLastActive(timers)
    /\ OnlyLastActive(loaded)
    /\ OnlyLastActive(StoredTimers)
    /\ branch = "start" => \A i \in 1..(Len(timers) - 1) : ~active(timers[i])

\* a timer was started while another one was running
C1_Witness ==
    /\ branch = "start"
    /\ Len(loaded) >= 1 /\ active(loaded[Len(loaded)])
    /\ Len(timers) = Len(loaded) + 1 /\ active(timers[Len(timers)])
    /\ saved

ClosedOrdered(ts) == \A i \in 1..Len(ts) : ~active(ts[i]) => ts[i].end >= ts[i].start

\* C2: every closed timer has end >= start, in memory after every invocation
\* and in the store.
C2_EndNotBeforeStart ==
    /\ ClosedOrdered(timers)
    /\ ClosedOrdered(loaded)
    /\ ClosedOrdered(StoredTimers)

\* stop ran with now behind the start and the end of a closed timer
C2_Witness ==
    /\ Stopped /\ saved
    /\ \E i \in 1..Len(loaded) :
        ~active(loaded[i]) /\ now < loaded[i].start /\ loaded[i].start < loaded[i].end

\* C3: the duration of every timer, taken at the current clock for an active
\* timer, is not negative, and the status branch prints no negative duration.
C3_DurationNotNegative ==
    /\ \A i \in 1..Len(timers) : duration(timers[i], clock) >= 0
    /\ (branch = "status" /\ Len(out) = 3) => out[2] >= 0

\* C4 as claimed: stop with now before the start of the active timer makes it
\* start = end = now; stop with now before the end of a closed timer sets its
\* end to now and keeps its start.
C4_AsClaimed ==
    Stopped =>
        \A i \in 1..Len(loaded) :
            /\ (active(loaded[i]) /\ now < loaded[i].start)
                   => (timers[i].start = now /\ timers[i].end = now)
            /\ (~active(loaded[i]) /\ now < loaded[i].end)
                   => (timers[i].end = now /\ timers[i].start = loaded[i].start)

\* C4 amended: stop with now before the start of a timer, active or closed,
\* makes it start = end = now; stop with now before the end of a closed timer
\* and not before its start sets its end to now and keeps its start.
C4_CollapseOrClamp ==
    Stopped =>
        \A i \in 1..Len(loaded) :
            /\ now < loaded[i].start
                   => (timers[i].start = now /\ timers[i].end = now)
            /\ (~active(loaded[i]) /\ loaded[i].start <= now /\ now < loaded[i].end)
                   => (timers[i].end = now /\ timers[i].start = loaded[i].start)

\* one stop collapsed the active timer and clamped a closed one
C4_Witness ==
    /\ branch = "stop"
    /\ \E i \in 1..Len(loaded) : active(loaded[i]) /\ now < loaded[i].start
    /\ \E i \in 1..Len(loaded) :
        ~active(loaded[i]) /\ loaded[i].start <= now /\ now < loaded[i].end

Ascending(ts) == \A i, j \in 1..Len(ts) : i < j => ts[i].start <= ts[j].start

\* C5: the timers are in ascending order of start, in memory after every
\* invocation and in the store.
C5_StartAscending ==
    /\ Ascending(timers)
    /\ Ascending(loaded)
    /\ Ascending(StoredTimers)

\* a third timer was started at a now behind the starts of the two before it
C5_Witness ==
    /\ branch = "start" /\ saved
    /\ Len(loaded) = 2 /\ Len(timers) = 3
    /\ now < loaded[1].start /\ loaded[1].start < loaded[2].start

\* C6: stop_timer on an empty sequence raises nothing, leaves the sequence
\* and the store empty and leaves save_changes as load left it.
C6_StopOnEmpty ==
    (branch = "stop" /\ loaded = <<>>) =>
        /\ timers = <<>>
        /\ err = "none"
        /\ save_changes = load_flag
        /\ StoredTimers = <<>>

\* stop ran on an empty store of the current version
C6_Witness ==
    /\ branch = "stop" /\ loaded = <<>>
    /\ file.exists /\ ~load_flag /\ ~saved

SameNames(ts, us) ==
    \A i \in 1..Len(us) : ts[i].name = us[i].name /\ ts[i].comment = us[i].comment

\* C7: stop keeps the length of the sequence and every name and comment,
\* start appends exactly one timer at the end, and no invocation leaves
\* fewer timers, in memory or in the store, than it loaded.
C7_NeverDeletes ==
    /\ Len(timers) >= Len(loaded)
    /\ Len(StoredTimers) >= Len(loaded)
    /\ branch = "stop" => (Len(timers) = Len(loaded) /\ SameNames(timers, loaded))
    /\ branch = "start" =>
        /\ Len(timers) = Len(loaded) + 1
        /\ SameNames(timers, loaded)
        /\ timers[Len(timers)] = Timer(name, partition(join(opts.optargs))[3], now, None)

\* a start that adjusted the first of two timers and appended a third
C7_Witness ==
    /\ branch = "start" /\ saved
    /\ Len(loaded) = 2 /\ Len(timers) = 3
    /\ timers[1] # loaded[1]

\* C8: an invocation that changed the timer sequence ends with save_changes
\* set and with the changed sequence in the store.
C8_ChangeIsSaved ==
    timers # loaded => (save_changes /\ saved /\ StoredTimers = timers)

\* C8 where the store existed before the invocation: the flag is set, and
\* the changed sequence is written unless the invocation raised
C8_ChangeSetsFlag ==
    timers # loaded =>
        /\ save_changes
        /\ err = "none" => (saved /\ StoredTimers = timers)
        /\ err # "none" => (err = "IOError" /\ ~file.exists)

\* the invocations C9 names as changing nothing
ReadOnly ==
    \/ branch \in {"report", "report_cal", "report_break_in_service", "status"}
    \/ branch = "stop" /\ timers = loaded

\* C9 as claimed: the store is written only if the invocation changed the
\* timer sequence, and a report, a status or a stop with nothing to change
\* leaves the sequence as loaded and does not write the store.
C9_AsClaimed ==
    /\ saved => timers # loaded
    /\ ReadOnly => (timers = loaded /\ ~saved)

\* C9 amended: the store is written only if the invocation changed the timer
\* sequence or load found a store of another version; a report, a status or
\* a stop with nothing to change leaves the sequence as loaded and writes the
\* store only in the latter case.
C9_SavedOnlyIfChangedOrUpgraded ==
    /\ saved => (timers # loaded \/ load_flag)
    /\ ReadOnly => (timers = loaded /\ (saved => load_flag))

\* a stop that found a closed timer and nothing to change
C9_Witness ==
    /\ branch = "stop" /\ Len(loaded) >= 1
    /\ timers = loaded
    /\ ~save_changes /\ ~saved

\* the name text of the last invocation: " ".join(optargs) up to the first ":"
RawName == partition(join(opts.optargs))[1]

\* the timers whose name the text n matches as a regular expression
Matching(n, ts) == {i \in 1..Len(ts) : re_compiles(n) /\ re_search(n, ts[i].name)}

Latest(S) == CHOOSE i \in S : \A j \in S : j <= i

\* C10: resolve_name returns the text itself with --explicit; otherwise the
\* name of the last timer whose name the text matches, and the text itself
\* when it matches no timer name.
C10_ResolvesToLatestMatch ==
    opts.optargs # <<>> =>
        /\ err # "re.error"
        /\ name = IF opts.explicit \/ Matching(RawName, loaded) = {} THEN RawName
                  ELSE loaded[Latest(Matching(RawName, loaded))].name

\* C10 where re.search raises nothing
C10_ResolvesWhenPatternCompiles ==
    (opts.optargs # <<>> /\ err # "re.error") =>
        name = IF opts.explicit \/ Matching(RawName, loaded) = {} THEN RawName
               ELSE loaded[Latest(Matching(RawName, loaded))].name

\* C11: without the explicit flag a text that is a key of the alias map
\* resolves to the mapped name, whatever timer names the text matches.
C11_AliasBeforeSearch ==
    (branch = "resolve" /\ ~opts.explicit /\ RawName \in DOMAIN name_map) =>
        name = name_map[RawName]

\* an alias was resolved although the text matches the name of a timer and
\* the alias maps to another name
C11_Witness ==
    /\ branch = "resolve" /\ ~opts.explicit
    /\ RawName \in DOMAIN name_map
    /\ \E i \in 1..Len(timers) : re_search(RawName, timers[i].name)
    /\ name # resolve_scan(RawName, timers, Len(timers))

\* C12: resolve_name raises nothing and produces a name for every text, and
\* an invocation with a name and without --stop goes on to start a timer.
C12_ResolveNeverFails ==
    opts.optargs # <<>> =>
        /\ err # "re.error"
        /\ name # NoName
        /\ (~opts.stop /\ name # <<>>) => (branch = "start" /\ Len(timers) = Len(loaded) + 1)

\* the timers the last invocation closed, clamped, collapsed or started all
\* carry its one now
OneNow ==
    /\ \A i \in 1..Len(loaded) : timers[i] # loaded[i] => timers[i].end = now
    /\ branch = "start" => timers[Len(timers)].start = now

\* C13: with --at HH:MM now is HH:MM:00 on the date of the unadjusted now
\* (now0), with or without --leap; with
\* --leap M alone now is the unadjusted now minus M minutes; that now is the
\* one used for every timer the invocation touches.
C13_NowOfInvocation ==
    Stopped =>
        /\ opts.at_time # <<>> =>
              now = (now0 \div SecPerDay) * SecPerDay
                    + opts.at_time[1] * SecPerHour + opts.at_time[2] * SecPerMin
        /\ (opts.at_time = <<>> /\ opts.leap # 0) => now = now0 - opts.leap * SecPerMin
        /\ OneNow

\* C13 without the combination of --leap and --at
C13_NowWithoutLeapAndAt ==
    (Stopped /\ (opts.at_time = <<>> \/ opts.leap = 0)) =>
        /\ opts.at_time # <<>> =>
              now = (now0 \div SecPerDay) * SecPerDay
                    + opts.at_time[1] * SecPerHour + opts.at_time[2] * SecPerMin
        /\ (opts.at_time = <<>> /\ opts.leap # 0) => now = now0 - opts.leap * SecPerMin
        /\ OneNow

\* the sum of the values of a tally dict
RECURSIVE SumOf(_)
SumOf(tally) ==
    IF DOMAIN tally = {} THEN 0
    ELSE LET k == CHOOSE x \in DOMAIN tally : TRUE
         IN  tally[k] + SumOf([x \in DOMAIN tally \ {k} |-> tally[x]])

\* the sum of the durations of the loaded timers with index in S
RECURSIVE SumDuration(_)
SumDuration(S) ==
    IF S = {} THEN 0
    ELSE LET i == CHOOSE x \in S : TRUE
         IN  duration(loaded[i], clock) + SumDuration(S \ {i})

\* the loaded timers whose start falls in the period of a printed section
InPeriod(section) ==
    { i \in 1..Len(loaded) :
        CASE section.kind = "day"   -> same_day(section.date, loaded[i].start)
          [] section.kind = "week"  -> same_week(section.date, loaded[i].start)
          [] section.kind = "month" -> same_month(section.date, loaded[i].start) }

AllClosed(ts) == \A i \in 1..Len(ts) : ~active(ts[i])

\* C14: in the linear report over closed timers in ascending order of start,
\* every timer falls in exactly one printed day, one printed week and one
\* printed month, that of its start; in every printed section each name's
\* tally is the sum of the full durations of the timers of that name that
\* start in the period, so the tallies by name add up to the total duration
\* of the timers that start in the period, and so do the tallies by tag when
\* each of these timers has one tag.
C14_FullDurationInStartBucket ==
    (branch = "report" /\ loaded # <<>> /\ AllClosed(loaded) /\ Ascending(loaded)) =>
        /\ \A i \in 1..Len(loaded) : \A kind \in {"day", "week", "month"} :
              Cardinality({ k \in 1..Len(out) :
                              out[k].kind = kind /\ i \in InPeriod(out[k]) }) = 1
        /\ \A k \in 1..Len(out) :
              /\ DOMAIN out[k].total.names = { loaded[i].name : i \in InPeriod(out[k]) }
              /\ \A n \in DOMAIN out[k].total.names :
                    out[k].total.names[n] =
                        SumDuration({ i \in InPeriod(out[k]) : loaded[i].name = n })
              /\ SumOf(out[k].total.names) = SumDuration(InPeriod(out[k]))
              /\ (\A i \in InPeriod(out[k]) : Cardinality(tags(loaded[i])) = 1) =>
                    SumOf(out[k].total.tags) = SumDuration(InPeriod(out[k]))

\* a report over timers of several days and weeks, the last of which starts
\* in one month and ends in the next
C14_Witness ==
    /\ branch = "report" /\ AllClosed(loaded) /\ Ascending(loaded)
    /\ \E i \in 1..Len(loaded) : ~same_month(loaded[i].start, loaded[i].end)
    /\ \E i \in 1..(Len(loaded) - 1) : ~same_week(loaded[i].start, loaded[i + 1].start)
    /\ \E k \in 1..Len(out) : Cardinality(InPeriod(out[k])) > 1

\* the loaded timers after which report_cal sees the month change
MonthChanges ==
    { i \in 1..(Len(loaded) - 1) : ~same_month(loaded[i].start, loaded[i + 1].start) }

\* the loaded timers after which report_cal sees the week change within a month
WeekChanges ==
    { i \in 1..(Len(loaded) - 1) :
        /\ same_month(loaded[i].start, loaded[i + 1].start)
        /\ ~same_week(loaded[i].start, loaded[i + 1].start) }

\* the first loaded timer after the last change in B before timer i
Since(B, i) ==
    IF \E j \in B : j < i
    THEN 1 + CHOOSE j \in B : j < i /\ \A h \in B : h < i => h <= j
    ELSE 1

\* the place in the output of what report_cal prints after timer i
PrintedAfter(i) ==
    1 + Cardinality({ j \in MonthChanges \cup WeekChanges : j < i })
      + Cardinality({ j \in MonthChanges : j < i })

\* the sum of the totals (the eighth entries) of the rows of a weekly tally
RECURSIVE SumOfWeek(_)
SumOfWeek(tally) ==
    IF DOMAIN tally = {} THEN 0
    ELSE LET k == CHOOSE x \in DOMAIN tally : TRUE
         IN  tally[k][8] + SumOfWeek([x \in DOMAIN tally \ {k} |-> tally[x]])

\* out[k] is the weekly tally of the timers since the last flush of it, up to i
WeeklyFlushed(k, i) ==
    /\ out[k].kind = "week_cal" /\ out[k].date = loaded[i].start
    /\ SumOfWeek(out[k].total.names) =
           SumDuration(Since(MonthChanges \cup WeekChanges, i)..i)

\* out[k] is the monthly tally of the timers since the last flush of it, up to i
MonthlyFlushed(k, i) ==
    /\ out[k].kind = "month" /\ out[k].date = loaded[i].start
    /\ SumOf(out[k].total.names) = SumDuration(Since(MonthChanges, i)..i)

\* C15: in the calendar report a month change between two timers flushes the
\* weekly and the monthly tally together and both start again from nothing;
\* a week change within a month flushes the weekly tally alone, and the
\* monthly tally goes on accumulating; the end of the sequence flushes both.
C15_CalendarFlushes ==
    (branch = "report_cal" /\ loaded # <<>>) =>
        /\ Len(out) = Cardinality(MonthChanges \cup WeekChanges)
                      + Cardinality(MonthChanges) + 2
        /\ \A i \in MonthChanges :
              WeeklyFlushed(PrintedAfter(i), i) /\ MonthlyFlushed(PrintedAfter(i) + 1, i)
        /\ \A i \in WeekChanges :
              WeeklyFlushed(PrintedAfter(i), i) /\ out[PrintedAfter(i) + 1].kind = "week_cal"
        /\ WeeklyFlushed(Len(out) - 1, Len(loaded)) /\ MonthlyFlushed(Len(out), Len(loaded))

\* a calendar report over a week change within January followed by the
\* change to February within one ISO week
C15_Witness ==
    /\ branch = "report_cal" /\ Len(loaded) >= 3
    /\ \E i \in WeekChanges : \E j \in MonthChanges :
          /\ i < j
          /\ isoweek(toordinal(loaded[j].start)) = isoweek(toordinal(loaded[j + 1].start))

\* the days strictly between the start dates of loaded timers i and i + 1
DaysBetween(i) ==
    { n \in toordinal(loaded[i].start)..toordinal(loaded[i + 1].start) :
        toordinal(loaded[i].start) < n /\ n < toordinal(loaded[i + 1].start) }

\* the pairs of consecutive loaded timers more than 3 days apart
Breaks == { i \in 1..(Len(loaded) - 1) : Cardinality(DaysBetween(i)) > 3 }

\* C16: the break-in-service report prints one line for each pair of
\* consecutive timers with more than 3 days strictly between their start
\* dates and no other line; the line gives the day after the earlier start,
\* the day before the later start and the number of days between.
C16_BreakLines ==
    (branch = "report_break_in_service" /\ loaded # <<>>) =>
        /\ err = "none"
        /\ Len(out) = Cardinality(Breaks)
        /\ \A i \in Breaks :
              LET line == out[Cardinality({ j \in Breaks : j <= i })]
              IN  /\ line.from = month_day(toordinal(loaded[i].start) + 1)
                  /\ line.to = month_day(toordinal(loaded[i + 1].start) - 1)
                  /\ line.days = Cardinality(DaysBetween(i))

\* starts on January 1, 2 and 10: the one line is January 3 to 9, 7 days
C16_Witness ==
    /\ branch = "report_break_in_service" /\ Len(loaded) = 3
    /\ toordinal(loaded[1].start) = 1
    /\ toordinal(loaded[2].start) = 2
    /\ toordinal(loaded[3].start) = 10
    /\ out = << [from |-> [month |-> 1, day |-> 3], to |-> [month |-> 1, day |-> 9],
                days |-> 7] >>

\* the last invocation printed the message of an empty report, raised
\* nothing and left the empty sequence as it was, in memory and in the store
EmptyReported ==
    /\ err = "none"
    /\ Len(out) = 1 /\ out[1] = "No timers to report"
    /\ timers = <<>> /\ StoredTimers = <<>>

\* C17: each of the three reports, asked for on an empty sequence, prints a
\* message, raises no error and leaves the sequence unchanged.
C17_EmptyReportIsNormal ==
    (branch \in {"report", "report_cal", "report_break_in_service"} /\ loaded = <<>>) =>
        EmptyReported

\* C17 for the linear and the calendar report
C17_EmptyLinearOrCalendar ==
    (branch \in {"report", "report_cal"} /\ loaded = <<>>) => EmptyReported

\* the timers of ts and us are equal in name, comment, start and end
SameTimers(ts, us) ==
    /\ Len(ts) = Len(us)
    /\ \A i \in 1..Len(ts) :
          /\ ts[i].name = us[i].name
          /\ ts[i].comment = us[i].comment
          /\ ts[i].start = us[i].start
          /\ ts[i].end = us[i].end

\* C18: loading the store that an invocation saved gives the sequence that
\* was saved: the same length and, timer by timer, the same name, comment,
\* start and end (None staying None).
C18_SaveLoadRoundTrip == saved => SameTimers(StoredTimers, timers)

HasTab(s) == \E i \in 1..Len(s) : s[i] = "\t"

\* C18 for the sequences without a tab in a name or a comment
C18_RoundTripWithoutTab ==
    (saved /\ \A i \in 1..Len(timers) : ~HasTab(timers[i].name) /\ ~HasTab(timers[i].comment))
        => SameTimers(StoredTimers, timers)

\* a timer the stop loop breaks at: closed, with start and end not after now
Unaffected(t) == ~active(t) /\ t.start <= now /\ t.end <= now

\* the index of the loaded timer the stop loop broke at, 0 if it ran through
HaltedAt ==
    IF \E i \in 1..Len(loaded) : Unaffected(loaded[i])
    THEN CHOOSE i \in 1..Len(loaded) :
             Unaffected(loaded[i]) /\ \A j \in (i + 1)..Len(loaded) : ~Unaffected(loaded[j])
    ELSE 0

\* now is not before any time in the loaded sequence
OrdinaryUse ==
    \A i \in 1..Len(loaded) :
        loaded[i].start <= now /\ (~active(loaded[i]) => loaded[i].end <= now)

\* C19: stop_timer changes the timers after the last one that is closed with
\* start <= now and end <= now, and leaves that timer and every timer before
\* it as they were; when now is not before any stored time, it changes
\* nothing but the end of the last timer, if that one is active.
C19_StopChangesSuffix ==
    Stopped =>
        /\ \A i \in 1..HaltedAt : timers[i] = loaded[i]
        /\ \A i \in (HaltedAt + 1)..Len(loaded) : timers[i] # loaded[i]
        /\ OrdinaryUse =>
              \A i \in 1..Len(loaded) :
                  timers[i] = IF i = Len(loaded) /\ active(loaded[i])
                              THEN [loaded[i] EXCEPT !.end = now]
                              ELSE loaded[i]

\* stop collapsed the last two of three timers and broke at the first
C19_Witness ==
    /\ branch = "stop" /\ Len(loaded) = 3
    /\ HaltedAt = 1
    /\ timers[2] # loaded[2] /\ timers[3] # loaded[3]
    /\ timers[1] = loaded[1]

\* each closed timer ends no later than the next timer starts
NoOverlap(ts) ==
    \A i \in 1..(Len(ts) - 1) : ~active(ts[i]) => ts[i].end <= ts[i + 1].start

\* C20: timers never overlap, in memory after every invocation, after every
\* load and in the store; and a timer started while another was active
\* starts where that one ends.
C20_NoOverlap ==
    /\ NoOverlap(timers)
    /\ NoOverlap(loaded)
    /\ NoOverlap(StoredTimers)
    /\ (branch = "start" /\ loaded # <<>> /\ active(loaded[Len(loaded)])) =>
          timers[Len(loaded)].end = timers[Len(timers)].start

\* a timer was started, with now moved back by --leap or --at, while a timer
\* that began after that now was active and the closed timer before it ended
\* after that now
C20_Witness ==
    /\ branch = "start" /\ saved /\ Len(loaded) = 2
    /\ active(loaded[2]) /\ now < loaded[2].start
    /\ now < loaded[1].end
    /\ timers[2].end = timers[3].start

\* the timers as stop_timer left them: start_timer has appended one since
AfterStop == IF branch = "start" THEN SubSeq(timers, 1, Len(timers) - 1) ELSE timers

\* C21: right after stop_timer has run with its now, every timer is closed
\* and has start <= end <= now; the timer at which the backward scan halts
\* and the timers before it, which the scan never looks at, included.
C21_AllClosedBeforeNow ==
    Stopped =>
        \A i \in 1..Len(AfterStop) :
            /\ ~active(AfterStop[i])
            /\ AfterStop[i].start <= AfterStop[i].end
            /\ AfterStop[i].end <= now

\* stop_timer, with now moved back, changed the last of three timers and
\* halted at the second, never looking at the first
C21_Witness ==
    /\ Stopped /\ Len(loaded) = 3 /\ now < now0
    /\ HaltedAt = 2
    /\ AfterStop[3] # loaded[3]
    /\ AfterStop[1] = loaded[1] /\ AfterStop[2] = loaded[2]
    /\ loaded[1].start < loaded[1].end

\* C22: an invocation that sets save_changes ends without an exception and
\* with the store file holding the timers in memory, whatever files existed
\* before it; so the first start, with no store and no back up, leaves a
\* store with that one active timer.
C22_FlagMeansStored ==
    save_changes => (err = "none" /\ file.exists /\ StoredTimers = timers)

\* C22 where the store file exists: the timers in memory are written, unless
\* the break in service report raised on an empty sequence before save
C22_StoredWhenStoreExists ==
    (save_changes /\ file.exists) =>
        \/ err = "none" /\ saved /\ StoredTimers = timers
        \/ err = "IndexError" /\ branch = "report_break_in_service" /\ timers = <<>>

\* without a store file every invocation that sets save_changes raises in
\* backup and leaves no store file
C22_NoStoreIsNeverCreated ==
    (save_changes /\ ~file.exists) =>
        err = "IOError" /\ branch = "start" /\ ~saved /\ ~bak.exists

====
